---- MODULE Spec2Model ----
(***************************************************************************)
(* The crawl orchestration engine of src/src/crawlers/web.rs: the worker   *)
(* pool, the Frontier (crawl channel), the VisitedSet, the web semaphore,  *)
(* the completion channel, the monitor task with its watchdog, and the     *)
(* result channel read by the consumer.                                    *)
(*                                                                         *)
(* A URL string is a pair <<page, form>>.  form "canon" is the string the  *)
(* url crate serializes for the page without fragment, "frag" the same     *)
(* with a fragment, "raw" a spelling that parses to the same URL but is    *)
(* not the serialized form (e.g. "https://example.com" for                 *)
(* "https://example.com/").  Page 0 lives on another domain, page 1 is the *)
(* site's root "/", the other pages are "/2", ..., and the last of them is *)
(* a file whose name ends in an excluded extension.                        *)
(***************************************************************************)
EXTENDS Integers, Sequences, FiniteSets, TLC

\* ------------------------------------------------------------------ bounds
MaxConcurrency == 2
FrontierCap == 2
ResultCap == 1
NumPages == 2
MaxLinks == 2
ZeroLinkWorkers == 4
MaxWait == 10
MaxWorkerId == 9
MaxTextLen == 5

VARIABLES
    max_concurrency,        \* config.max_concurrency = num_workers = permits
    start_url,              \* config.start_url, the seed string
    webdriver_url,          \* config.webdriver_url, the primary endpoint
    patterns_compile,       \* TRUE when every configured pattern is a valid regex
    timeout_elapsed,        \* TRUE once the caller's idle or total timeout has run out
    probe,                  \* a filter configuration and a URL handed to should_crawl
    verdict,                \* what should_crawl answered for the probe
    text,                   \* a body handed to the text parser
    content,                \* what the text parser made of it
    legacy,                 \* the state of a crawl started with lib.rs start_crawler
    frontier,               \* crawl_tx/crawl_rx channel buffer
    visited,                \* visited: HashSet<String>
    rx_lock,                \* holder of the crawl_rx mutex, 0 when free
    permits,                \* available permits of web_semaphore
    active_workers,         \* active_workers counter
    pc,                     \* position of every worker task
    url,                    \* the URL a worker took from the Frontier
    client_opt,             \* TRUE when the worker holds a WebDriver client
    connect_tried,          \* endpoints the running connect_to_webdriver call tried
    sessions_opened,        \* sessions each worker has opened so far
    sessions_closed,        \* client.close() calls each worker has made
    claimed,                \* workers that have marked a URL as visited
    waited,                 \* seconds since the worker called get_next_url
    recv_timer,             \* seconds the worker's timed recv has run
    page_links,             \* how many of page.links the link loop has not reached
    normalized,             \* the link a worker is about to send
    nav_attempts,           \* scrape calls made by process_url
    reconnect_attempts,     \* attempt_reconnect calls made by process_url
    first_error,            \* what the first scrape of process_url met
    scrape_result,          \* TRUE when process_url returned Some(page)
    exit_cause,             \* why the worker's loop ended
    failed,                 \* URLs whose fetch ended without a page
    result_buf,             \* records waiting in the result channel
    emitted,                \* URLs of all PageData sent, in order
    result_rx,              \* the consumer's receiver: "open" or "dropped"
    result_senders,         \* live result_tx handles
    completion_chan,        \* signals waiting in the completion channel
    completed_workers,      \* the monitor task's counter
    monitor_pc,             \* position of the monitor task
    initial_page_processed  \* the first-page flag

vars == <<max_concurrency, start_url, webdriver_url, patterns_compile,
          timeout_elapsed, probe, verdict, text, content, legacy, frontier, visited,
          rx_lock,
          permits, active_workers, pc, url, client_opt, connect_tried,
          sessions_opened, sessions_closed, claimed, waited, recv_timer,
          page_links, normalized,
          nav_attempts, reconnect_attempts, first_error, scrape_result,
          exit_cause, failed, result_buf, emitted, result_rx, result_senders, completion_chan,
          completed_workers, monitor_pc, initial_page_processed>>

\* -------------------------------------------------------------- URL model
Forms == {"canon", "raw", "frag"}
NoUrl == <<0, "none">>
Workers == 1..max_concurrency

\* Url::parse followed by serialization: the fragment is kept, every other
\* spelling difference disappears.
ParseUrl(s) == IF s[2] = "frag" THEN s ELSE <<s[1], "canon">>

\* base.join(link) for the absolute links of the model.
Join(base, link) == ParseUrl(link)

\* UrlFilter::normalize_url: set_fragment(None).
normalize_url(u) == <<u[1], "canon">>

\* The canonical key of a URL string: parsed, fragment stripped, serialized.
NormalForm(s) == normalize_url(ParseUrl(s))

UrlDomain(u) == IF u[1] = 0 THEN "other.example" ELSE "example.com"
UrlPath(u) == IF u[1] = 1 THEN <<"/">> ELSE <<"/", u[1]>>

\* A prefix test that only accepts whole path segments.
StartsWith_Segment(s, prefix) ==
    /\ Len(prefix) <= Len(s)
    /\ \A i \in 1..Len(prefix) : s[i] = prefix[i]
    /\ Len(prefix) = Len(s) \/ s[Len(prefix) + 1] = "/"
\* str::starts_with
StartsWith(s, prefix) ==
    /\ Len(prefix) <= Len(s)
    /\ \A i \in 1..Len(prefix) : s[i] = prefix[i]

\* The pages of the site and the strings a parsed URL can serialize to.
AssetPage == NumPages
SitePages == 1..NumPages
UrlStrings == (0..AssetPage) \X {"canon", "frag"}

\* A compiled pattern is the set of serialized URLs it matches.  The built-in
\* pattern `\.(jpg|...|pdf)$` is anchored at the end of the string, so it
\* matches the asset's URL only when no fragment follows the extension.
AssetPattern == {u \in UrlStrings : u[1] = AssetPage /\ u[2] = "canon"}
\* config.include_patterns holds one pattern, `^https://`.
HttpsPattern == {u \in UrlStrings : u[1] \in 0..NumPages}

\* create_url_filter with the default allow_external = false.
allow_external == FALSE
root_url == ParseUrl(start_url)
required_domain == IF ~allow_external THEN <<UrlDomain(root_url)>> ELSE <<>>
required_path_prefix == IF ~allow_external THEN <<UrlPath(root_url)>> ELSE <<>>
exclude_regexes == {AssetPattern}
include_regexes == {HttpsPattern}

\* UrlFilter, for any configuration `self` and any URL `target`.  An Option
\* is the empty sequence (None) or a one-element sequence (Some); a URL
\* carries its domain (None for an IP-address host), its path and its
\* serialization `str`.
UrlFilter_is_in_domain_scope_ExternalWins(self, target) ==
    \/ self.allow_external
    \/ /\ self.required_domain # <<>>
       /\ target.domain # <<>>
       /\ target.domain[1] = self.required_domain[1]
UrlFilter_is_in_domain_scope(self, target) ==
    IF self.allow_external /\ self.required_domain = <<>> THEN TRUE
    ELSE IF self.required_domain # <<>>
         THEN IF target.domain # <<>>
              THEN target.domain[1] = self.required_domain[1]
              ELSE FALSE
    ELSE FALSE

UrlFilter_is_in_path_scope(self, target) ==
    IF self.required_path_prefix # <<>>
    THEN StartsWith(target.path, self.required_path_prefix[1])
    ELSE TRUE

UrlFilter_should_crawl(self, target) ==
    IF ~UrlFilter_is_in_domain_scope(self, target) THEN FALSE
    ELSE IF ~UrlFilter_is_in_path_scope(self, target) THEN FALSE
    ELSE IF \E r \in self.exclude_regexes : target.str \in r THEN FALSE
    ELSE IF self.include_regexes # {}
            /\ ~(\E r \in self.include_regexes : target.str \in r) THEN FALSE
    ELSE TRUE

\* The filter of the running crawl and the URLs of the site.
url_filter ==
    [allow_external |-> allow_external,
     required_domain |-> required_domain,
     required_path_prefix |-> required_path_prefix,
     exclude_regexes |-> exclude_regexes,
     include_regexes |-> include_regexes]
SiteUrl(u) == [domain |-> <<UrlDomain(u)>>, path |-> UrlPath(u), str |-> u]

is_in_domain_scope_Any(u) == TRUE
is_in_domain_scope(u) == UrlFilter_is_in_domain_scope(url_filter, SiteUrl(u))

is_in_path_scope(u) == UrlFilter_is_in_path_scope(url_filter, SiteUrl(u))

should_crawl(u) ==
    IF ~is_in_domain_scope(u) THEN FALSE
    ELSE IF ~is_in_path_scope(u) THEN FALSE
    ELSE IF \E r \in exclude_regexes : u \in r THEN FALSE
    ELSE IF include_regexes # {} /\ ~(\E r \in include_regexes : u \in r) THEN FALSE
    ELSE TRUE

\* The links a fetched page can carry.
Hrefs == {<<0, "canon">>} \cup (SitePages \X {"canon", "frag"})
\* page.links is any list of at most MaxLinks of them.  Its length is fixed
\* when the page is scraped; each element is drawn when the link loop
\* reaches it, which gives the same runs as drawing the list at once.
LinkCounts == 0..MaxLinks

\* ------------------------------------------------------- WebDriver servers
default_webdriver_url == "http://localhost:4444"
fallback_urls ==
    <<"http://localhost:9515", "http://localhost:4723",
      "http://localhost:9222", "http://127.0.0.1:4444">>

\* `if *url == webdriver_url { continue; }`
SkipFallback_Never(f, primary) == FALSE
SkipFallback(f, primary) == f = primary

\* The endpoints connect_to_webdriver goes through, in its order.
ConnectOrder(primary) ==
    <<primary>> \o SelectSeq(fallback_urls, LAMBDA f : ~SkipFallback(f, primary))

\* spawn_worker hands the loop `None`: no client yet.
InitialClient_Eager == TRUE
InitialClient == FALSE

\* No call of the filter or of the text parser is under way.
NoProbe == <<>>
NoText == <<"none">>
NoVerdict == <<>>
NoLegacy == <<>>
LibraryIdle ==
    /\ probe = NoProbe
    /\ verdict = NoVerdict
    /\ text = NoText
    /\ content = NoText
    /\ legacy = NoLegacy

\* ------------------------------------------------------------------- Init
\* Semaphore::new(config.max_concurrency)
SemaphorePermits_One(n) == 1
SemaphorePermits(n) == n

\* The state start() leaves: the seed is queued as the caller spelled it,
\* nothing is visited, n workers and the monitor task are spawned.
StartedWith(n, seed, endpoint) ==
    /\ max_concurrency = n
    /\ start_url = seed
    /\ webdriver_url = endpoint
    /\ patterns_compile = TRUE
    /\ timeout_elapsed = FALSE
    /\ LibraryIdle
    /\ frontier = <<start_url>>
    /\ visited = {}
    /\ rx_lock = 0
    /\ permits = SemaphorePermits(max_concurrency)
    /\ active_workers = 0
    /\ pc = [w \in Workers |-> "start"]
    /\ url = [w \in Workers |-> NoUrl]
    /\ client_opt = [w \in Workers |-> InitialClient]
    /\ connect_tried = [w \in Workers |-> <<>>]
    /\ sessions_opened = [w \in Workers |-> IF InitialClient THEN 1 ELSE 0]
    /\ sessions_closed = [w \in Workers |-> 0]
    /\ claimed = {}
    /\ waited = [w \in Workers |-> 0]
    /\ recv_timer = [w \in Workers |-> 0]
    /\ page_links = [w \in Workers |-> 0]
    /\ normalized = [w \in Workers |-> NoUrl]
    /\ nav_attempts = [w \in Workers |-> 0]
    /\ reconnect_attempts = [w \in Workers |-> 0]
    /\ first_error = [w \in Workers |-> "none"]
    /\ scrape_result = [w \in Workers |-> FALSE]
    /\ exit_cause = [w \in Workers |-> "none"]
    /\ failed = {}
    /\ result_buf = 0
    /\ emitted = <<>>
    /\ result_rx = "open"
    /\ result_senders = max_concurrency + 1
    /\ completion_chan = 0
    /\ completed_workers = 0
    /\ monitor_pc = "grace"
    /\ initial_page_processed = FALSE

Started(n, seed) == StartedWith(n, seed, default_webdriver_url)

\* The seeds: the site's root in every spelling, and a file below it.
Seeds == ({1} \X Forms) \cup {<<2, "canon">>}

Init == \E n \in 1..MaxConcurrency, seed \in Seeds : Started(n, seed)

\* ---------------------------------------------------------------- parsers
\* ParserType::from_url looks at the end of the URL string: the asset's URL
\* is a Pdf unless a fragment follows the extension; all else is Html.
from_url(s) == IF s[1] = AssetPage /\ s[2] = "canon" THEN "Pdf" ELSE "Html"
should_extract_links(parser_type) == parser_type = "Html"

\* Parser::parse_with_text_options, the links of the ParseResult: html::parse
\* returns the anchors of the body, the other parsers return content_only.
\* body_links is the number of links and URL-looking strings in the body.
parse_with_text_options_Anchors(parser_type, body_links) == body_links
parse_with_text_options(parser_type, body_links) ==
    IF parser_type = "Html" THEN body_links ELSE 0

\* ------------------------------------------------------- transport model
\* What one scrape call can meet: a page, a "Unable to find session" error,
\* another navigation or source error, or the 45 s deadline.
ScrapeOutcomes == {"ok", "session_lost", "error", "timeout"}

\* The outcomes the transport holds ready for one process_url call.
Scripts == [first : ScrapeOutcomes, reconnect : BOOLEAN, second : ScrapeOutcomes]

\* scrape: Some(page) on success, None on every error and on the deadline.
scrape(outcome) == outcome = "ok"

\* The test that ends the retry loop of process_url.
BreakRetryLoop(result_is_some, reconnect_attempted) ==
    result_is_some \/ ~reconnect_attempted

\* A retry loop that goes on after every failure, a failed reconnect included.
process_url_Persistent(script) ==
    IF scrape(script.first)
    THEN [page |-> TRUE, navs |-> 1, recs |-> 0]
    ELSE IF script.reconnect
    THEN [page |-> scrape(script.second), navs |-> 2, recs |-> 1]
    ELSE [page |-> scrape(script.second), navs |-> 3, recs |-> 2]

\* process_url: `for attempt in 0..2`, unrolled.  page is TRUE for Some.
process_url(script) ==
    LET reconnect_attempted0 == FALSE
        result0 == scrape(script.first)
    IN  IF BreakRetryLoop(result0, reconnect_attempted0)
        THEN [page |-> result0, navs |-> 1, recs |-> 0]
        ELSE \* attempt 1: reconnect first, leave the loop if that fails
             IF ~script.reconnect
             THEN [page |-> result0, navs |-> 1, recs |-> 1]
             ELSE [page |-> scrape(script.second), navs |-> 2, recs |-> 1]

\* ------------------------------------------------------------ small steps
\* web_semaphore.acquire() and the drop of _permit.
AcquirePermit_NoTake(p) == p
AcquirePermit(p) == p - 1
ReleasePermit_Leak(p) == p
ReleasePermit(p) == p + 1

\* The loop iteration holds _permit from the acquire to its end.
HoldsPermit(w) ==
    pc[w] \in {"connect", "connect_hung", "connected", "connect_failed",
              "scrape", "result", "emit", "flag", "links", "send", "abort"}

\* Where worker_processing_loop goes with a scraped page: into
\* process_discovered_page, which sends the record before its link loop.
PageFoundPc_LinksFirst == "links"
PageFoundPc == "emit"

\* Where worker_processing_loop goes with a failed scrape: it logs the
\* failure and the iteration ends.
FetchFailedPc_Emit == "emit"
FetchFailedPc == "lock"

\* Where a worker goes when result_tx.send fails: client cleanup, return Err.
EmitFailurePc_GoOn == "links"
EmitFailurePc_Flag == "flag"
EmitFailurePc == "abort"

\* The monitor's test for closing the result channel.
AllWorkersCompleted_First(n) == n >= 1
AllWorkersCompleted(n) == n = max_concurrency

\* `if let Some(client) = client_opt { client.close() }`
CloseIfSome_Never(has_client) == FALSE
CloseIfSome(has_client) == has_client

\* mark_url_as_visited: seen.contains(url).
AlreadyVisited_Never(u) == FALSE
AlreadyVisited(u) == u \in visited

\* get_next_url returns: the MutexGuard on crawl_rx is dropped; 0 is the
\* free mutex.
DropGuard_Keep(holder) == holder
DropGuard(holder) == 0

\* mpsc::channel::<()>(num_workers): the capacity of the completion channel.
CompletionCap_One(num_workers) == 1
CompletionCap(num_workers) == num_workers

\* mark_url_as_visited: seen.insert(url.to_string()).
InsertVisited_Skip(seen, u) == seen
InsertVisited(seen, u) == seen \cup {u}

\* The visited test process_discovered_page makes before it sends a link.
ShouldSend(u) == u \notin visited

\* The number of live handles after `drop(result_tx.clone())`.
DropClone(n) == (n + 1) - 1

\* ---------------------------------------------------------------- workers
libVars == <<probe, verdict, text, content, legacy>>
cfgVars == <<max_concurrency, start_url, webdriver_url, patterns_compile,
            timeout_elapsed, libVars>>
sessionVars == <<connect_tried, sessions_opened, sessions_closed>>
clockVars == <<waited, recv_timer>>
monitorVars == <<completion_chan, completed_workers, monitor_pc>>
outVars == <<result_buf, emitted, result_rx, result_senders>>
fetchVars == <<nav_attempts, reconnect_attempts, first_error, scrape_result, failed>>

\* spawn_worker: increment_active_worker, then the loop starts.
WorkerStart(w) ==
    /\ UNCHANGED <<sessionVars, clockVars, claimed>>
    /\ pc[w] = "start"
    /\ active_workers' = active_workers + 1
    /\ pc' = [pc EXCEPT ![w] = "lock"]
    /\ UNCHANGED <<cfgVars, monitorVars, outVars, fetchVars, frontier, visited,
                   rx_lock, permits, url, client_opt, page_links, normalized,
                   exit_cause, initial_page_processed>>

\* get_next_url: crawl_rx.lock().await
LockReceiver(w) ==
    /\ UNCHANGED <<sessionVars, clockVars, claimed>>
    /\ pc[w] = "lock"
    /\ rx_lock = 0
    /\ rx_lock' = w
    /\ pc' = [pc EXCEPT ![w] = "recv"]
    /\ UNCHANGED <<cfgVars, monitorVars, outVars, fetchVars, frontier, visited,
                   permits, active_workers, url, client_opt, page_links,
                   normalized, exit_cause, initial_page_processed>>

\* get_next_url: rx.recv() yields a URL before the timeout; the guard on
\* crawl_rx is dropped on return.
ReceiveUrl(w) ==
    /\ waited' = [waited EXCEPT ![w] = 0]
    /\ recv_timer' = [recv_timer EXCEPT ![w] = 0]
    /\ UNCHANGED <<sessionVars, claimed>>
    /\ pc[w] = "recv"
    /\ frontier # <<>>
    /\ url' = [url EXCEPT ![w] = Head(frontier)]
    /\ frontier' = Tail(frontier)
    /\ rx_lock' = DropGuard(rx_lock)
    /\ pc' = [pc EXCEPT ![w] = "mark"]
    /\ UNCHANGED <<cfgVars, monitorVars, outVars, fetchVars, visited, permits,
                   active_workers, client_opt, page_links, normalized,
                   exit_cause, initial_page_processed>>

\* get_next_url: the timed recv elapses on an empty channel; the loop ends.
ReceiveTimeout(w) ==
    /\ waited' = [waited EXCEPT ![w] = 0]
    /\ recv_timer' = [recv_timer EXCEPT ![w] = 0]
    /\ UNCHANGED <<sessionVars, claimed>>
    /\ pc[w] = "recv"
    /\ frontier = <<>>
    /\ rx_lock' = DropGuard(rx_lock)
    /\ exit_cause' = [exit_cause EXCEPT ![w] = "timeout"]
    /\ pc' = [pc EXCEPT ![w] = "close"]
    /\ UNCHANGED <<cfgVars, monitorVars, outVars, fetchVars, frontier, visited,
                   permits, active_workers, url, client_opt, page_links,
                   normalized, initial_page_processed>>

\* mark_url_as_visited: contains and insert under one lock; `continue` when
\* the URL was there already.
MarkVisited(w) ==
    /\ claimed' = IF AlreadyVisited(url[w]) THEN claimed ELSE claimed \cup {w}
    /\ UNCHANGED <<sessionVars, clockVars>>
    /\ pc[w] = "mark"
    /\ IF AlreadyVisited(url[w])
       THEN /\ pc' = [pc EXCEPT ![w] = "lock"]
            /\ url' = [url EXCEPT ![w] = NoUrl]
            /\ UNCHANGED visited
       ELSE /\ visited' = InsertVisited(visited, url[w])
            /\ pc' = [pc EXCEPT ![w] = "acquire"]
            /\ UNCHANGED url
    /\ UNCHANGED <<cfgVars, monitorVars, outVars, fetchVars, frontier, rx_lock,
                   permits, active_workers, client_opt, page_links,
                   normalized, exit_cause, initial_page_processed>>

\* web_semaphore.acquire().await
Acquire(w) ==
    /\ UNCHANGED <<sessionVars, clockVars, claimed>>
    /\ pc[w] = "acquire"
    /\ permits > 0
    /\ permits' = AcquirePermit(permits)
    /\ pc' = [pc EXCEPT ![w] = IF client_opt[w] THEN "scrape" ELSE "connect"]
    /\ UNCHANGED <<cfgVars, monitorVars, outVars, fetchVars, frontier, visited,
                   rx_lock, active_workers, url, client_opt, page_links,
                   normalized, exit_cause, initial_page_processed>>

\* connect_to_webdriver: one ClientBuilder::connect call, to the primary
\* endpoint first and then to the fallbacks; the call returns Some(client)
\* after the first success and None when the list is exhausted.
ConnectTry(w) ==
    /\ pc[w] = "connect"
    /\ LET order == ConnectOrder(webdriver_url)
           tried == Append(connect_tried[w], order[Len(connect_tried[w]) + 1])
       IN  /\ connect_tried' = [connect_tried EXCEPT ![w] = tried]
           /\ \E connected \in BOOLEAN :
                IF connected
                THEN /\ sessions_opened' = [sessions_opened EXCEPT ![w] = @ + 1]
                     /\ pc' = [pc EXCEPT ![w] = "connected"]
                ELSE /\ pc' = [pc EXCEPT ![w] = IF Len(tried) < Len(order)
                                                THEN "connect"
                                                ELSE "connect_failed"]
                     /\ UNCHANGED sessions_opened
    /\ UNCHANGED <<cfgVars, monitorVars, outVars, fetchVars, clockVars, frontier,
                   visited, rx_lock, permits, active_workers, url, client_opt,
                   sessions_closed, claimed, page_links, normalized, exit_cause,
                   initial_page_processed>>

\* The match on connect_to_webdriver's result: keep the client, or on None
\* `continue`, which ends the iteration and drops _permit.
ConnectReturn(w) ==
    /\ pc[w] \in {"connected", "connect_failed"}
    /\ connect_tried' = [connect_tried EXCEPT ![w] = <<>>]
    /\ IF pc[w] = "connected"
       THEN /\ client_opt' = [client_opt EXCEPT ![w] = TRUE]
            /\ pc' = [pc EXCEPT ![w] = "scrape"]
            /\ UNCHANGED <<permits, failed, url>>
       ELSE /\ permits' = ReleasePermit(permits)
            /\ failed' = failed \cup {url[w]}
            /\ url' = [url EXCEPT ![w] = NoUrl]
            /\ pc' = [pc EXCEPT ![w] = "lock"]
            /\ UNCHANGED client_opt
    /\ UNCHANGED <<cfgVars, monitorVars, outVars, clockVars, frontier, visited,
                   rx_lock, active_workers, sessions_opened, sessions_closed,
                   claimed, page_links, normalized, exit_cause, nav_attempts,
                   reconnect_attempts, first_error, scrape_result,
                   initial_page_processed>>

\* `let scrape_result = process_url(..)`; the body is whatever the site
\* serves, the page's links are what the parser for the URL makes of it.
Scrape(w) ==
    /\ UNCHANGED <<connect_tried, sessions_closed, clockVars, claimed>>
    /\ pc[w] = "scrape"
    /\ \E script \in Scripts :
         LET r == process_url(script)
         IN  /\ nav_attempts' = [nav_attempts EXCEPT ![w] = r.navs]
             /\ reconnect_attempts' = [reconnect_attempts EXCEPT ![w] = r.recs]
             /\ first_error' = [first_error EXCEPT ![w] = script.first]
             /\ scrape_result' = [scrape_result EXCEPT ![w] = r.page]
             /\ sessions_opened' = [sessions_opened EXCEPT ![w] =
                                        IF r.navs = 2 THEN @ + 1 ELSE @]
             /\ IF r.page
                THEN \E n \in LinkCounts :
                         page_links' = [page_links EXCEPT ![w] =
                             parse_with_text_options(from_url(url[w]), n)]
                ELSE UNCHANGED page_links
    /\ pc' = [pc EXCEPT ![w] = "result"]
    /\ UNCHANGED <<cfgVars, monitorVars, outVars, frontier, visited, rx_lock,
                   permits, active_workers, url, client_opt, normalized,
                   exit_cause, failed, initial_page_processed>>

\* `if let Some(page) = scrape_result`: go on to process_discovered_page, or
\* log the failure, which ends the iteration and drops _permit.
BranchOnResult(w) ==
    /\ UNCHANGED <<sessionVars, clockVars, claimed>>
    /\ pc[w] = "result"
    /\ IF scrape_result[w]
       THEN /\ pc' = [pc EXCEPT ![w] = PageFoundPc]
            /\ UNCHANGED <<permits, failed, url>>
       ELSE /\ permits' = ReleasePermit(permits)
            /\ failed' = failed \cup {url[w]}
            /\ url' = [url EXCEPT ![w] = NoUrl]
            /\ pc' = [pc EXCEPT ![w] = FetchFailedPc]
    /\ nav_attempts' = [nav_attempts EXCEPT ![w] = 0]
    /\ reconnect_attempts' = [reconnect_attempts EXCEPT ![w] = 0]
    /\ first_error' = [first_error EXCEPT ![w] = "none"]
    /\ scrape_result' = [scrape_result EXCEPT ![w] = FALSE]
    /\ UNCHANGED <<cfgVars, monitorVars, outVars, frontier, visited, rx_lock,
                   active_workers, client_opt, page_links, normalized,
                   exit_cause, initial_page_processed>>

\* process_discovered_page: result_tx.send(page).  It fails once the
\* consumer has dropped the receiver and waits while the channel is full.
Emit(w) ==
    /\ UNCHANGED <<sessionVars, clockVars, claimed>>
    /\ pc[w] = "emit"
    /\ IF result_rx = "dropped"
       THEN /\ pc' = [pc EXCEPT ![w] = EmitFailurePc]
            /\ exit_cause' = [exit_cause EXCEPT ![w] = "emit_failed"]
            /\ UNCHANGED <<result_buf, emitted>>
       ELSE /\ result_buf < ResultCap
            /\ result_buf' = result_buf + 1
            /\ emitted' = Append(emitted, url[w])
            /\ pc' = [pc EXCEPT ![w] = "flag"]
            /\ UNCHANGED exit_cause
    /\ UNCHANGED <<cfgVars, monitorVars, fetchVars, frontier, visited, rx_lock,
                   permits, active_workers, url, client_opt, page_links,
                   normalized, result_rx, result_senders,
                   initial_page_processed>>

\* process_discovered_page: the first-page flag is set after every send.
SetFlag(w) ==
    /\ UNCHANGED <<sessionVars, clockVars, claimed>>
    /\ pc[w] = "flag"
    /\ initial_page_processed' = TRUE
    /\ pc' = [pc EXCEPT ![w] = "links"]
    /\ UNCHANGED <<cfgVars, monitorVars, outVars, fetchVars, frontier, visited,
                   rx_lock, permits, active_workers, url, client_opt,
                   page_links, normalized, exit_cause>>

\* One pass of `for link in page.links` up to the send: resolve, filter,
\* normalize, look the link up in visited.
CheckLink(w) ==
    /\ UNCHANGED <<sessionVars, clockVars, claimed>>
    /\ pc[w] = "links"
    /\ page_links[w] > 0
    /\ \E link \in Hrefs :
         LET resolved == Join(ParseUrl(url[w]), link)
             norm == normalize_url(resolved)
         IN  IF should_crawl(resolved) /\ ShouldSend(norm)
             THEN /\ normalized' = [normalized EXCEPT ![w] = norm]
                  /\ pc' = [pc EXCEPT ![w] = "send"]
             ELSE UNCHANGED <<normalized, pc>>
    /\ page_links' = [page_links EXCEPT ![w] = page_links[w] - 1]
    /\ UNCHANGED <<cfgVars, monitorVars, outVars, fetchVars, frontier, visited,
                   rx_lock, permits, active_workers, url, client_opt,
                   exit_cause, initial_page_processed>>

\* crawl_tx.send(normalized).await: waits while the Frontier is full.
SendLink(w) ==
    /\ UNCHANGED <<sessionVars, clockVars, claimed>>
    /\ pc[w] = "send"
    /\ Len(frontier) < FrontierCap
    /\ frontier' = Append(frontier, normalized[w])
    /\ normalized' = [normalized EXCEPT ![w] = NoUrl]
    /\ pc' = [pc EXCEPT ![w] = "links"]
    /\ UNCHANGED <<cfgVars, monitorVars, outVars, fetchVars, visited, rx_lock,
                   permits, active_workers, url, client_opt, page_links,
                   exit_cause, initial_page_processed>>

\* The link loop is through: process_discovered_page returns true, the
\* iteration ends and _permit is dropped.
FinishPage(w) ==
    /\ UNCHANGED <<sessionVars, clockVars, claimed>>
    /\ pc[w] = "links"
    /\ page_links[w] = 0
    /\ permits' = ReleasePermit(permits)
    /\ url' = [url EXCEPT ![w] = NoUrl]
    /\ pc' = [pc EXCEPT ![w] = "lock"]
    /\ UNCHANGED <<cfgVars, monitorVars, outVars, fetchVars, frontier, visited,
                   rx_lock, active_workers, client_opt, page_links,
                   normalized, exit_cause, initial_page_processed>>

\* The send failed: close the client, return Err, _permit is dropped.
AbortLoop(w) ==
    /\ sessions_closed' = [sessions_closed EXCEPT ![w] =
                              IF CloseIfSome(client_opt[w]) THEN @ + 1 ELSE @]
    /\ UNCHANGED <<connect_tried, sessions_opened, clockVars, claimed>>
    /\ pc[w] = "abort"
    /\ client_opt' = [client_opt EXCEPT ![w] =
                         IF CloseIfSome(client_opt[w]) THEN FALSE ELSE @]
    /\ permits' = ReleasePermit(permits)
    /\ pc' = [pc EXCEPT ![w] = "signal"]
    /\ UNCHANGED <<cfgVars, monitorVars, outVars, fetchVars, frontier, visited,
                   rx_lock, active_workers, url, page_links, normalized,
                   exit_cause, initial_page_processed>>

\* The loop ended with None: close the client if there is one, return Ok.
CloseClient(w) ==
    /\ sessions_closed' = [sessions_closed EXCEPT ![w] =
                              IF CloseIfSome(client_opt[w]) THEN @ + 1 ELSE @]
    /\ UNCHANGED <<connect_tried, sessions_opened, clockVars, claimed>>
    /\ pc[w] = "close"
    /\ client_opt' = [client_opt EXCEPT ![w] =
                         IF CloseIfSome(client_opt[w]) THEN FALSE ELSE @]
    /\ pc' = [pc EXCEPT ![w] = "signal"]
    /\ UNCHANGED <<cfgVars, monitorVars, outVars, fetchVars, frontier, visited,
                   rx_lock, permits, active_workers, url, page_links,
                   normalized, exit_cause, initial_page_processed>>

\* spawn_worker after the loop: decrement_active_worker, completion_tx.send.
\* The completion channel holds num_workers signals, so the send finds room.
SignalCompletion(w) ==
    /\ UNCHANGED <<sessionVars, clockVars, claimed>>
    /\ pc[w] = "signal"
    /\ completion_chan < CompletionCap(max_concurrency)
    /\ active_workers' = active_workers - 1
    /\ completion_chan' = completion_chan + 1
    /\ pc' = [pc EXCEPT ![w] = "exit"]
    /\ UNCHANGED <<cfgVars, outVars, fetchVars, frontier, visited, rx_lock,
                   permits, url, client_opt, page_links, normalized,
                   exit_cause, completed_workers, monitor_pc,
                   initial_page_processed>>

\* The worker task ends and drops what it captured, its result_tx among it.
TaskEnd(w) ==
    /\ UNCHANGED <<sessionVars, clockVars, claimed>>
    /\ pc[w] = "exit"
    /\ result_senders' = result_senders - 1
    /\ pc' = [pc EXCEPT ![w] = "done"]
    /\ UNCHANGED <<cfgVars, monitorVars, fetchVars, frontier, visited, rx_lock,
                   permits, active_workers, url, client_opt, page_links,
                   normalized, exit_cause, result_buf, emitted, result_rx,
                   initial_page_processed>>

\* ---------------------------------------------------------------- monitor
\* The monitor task's first block: sleep 5 s, read the flag, and when it is
\* unset `drop(result_tx.clone())`.
Watchdog ==
    /\ UNCHANGED <<sessionVars, clockVars, claimed>>
    /\ monitor_pc = "grace"
    /\ result_senders' = IF ~initial_page_processed
                         THEN DropClone(result_senders)
                         ELSE result_senders
    /\ monitor_pc' = "wait"
    /\ UNCHANGED <<cfgVars, fetchVars, frontier, visited, rx_lock, permits,
                   active_workers, pc, url, client_opt, page_links, normalized,
                   exit_cause, result_buf, emitted, result_rx, completion_chan,
                   completed_workers, initial_page_processed>>

\* while let Some(_) = completion_rx.recv(): count, and drop result_tx when
\* the count reaches num_workers.
MonitorReceive ==
    /\ UNCHANGED <<sessionVars, clockVars, claimed>>
    /\ monitor_pc = "wait"
    /\ completion_chan > 0
    /\ completion_chan' = completion_chan - 1
    /\ completed_workers' = completed_workers + 1
    /\ IF AllWorkersCompleted(completed_workers + 1)
       THEN /\ result_senders' = result_senders - 1
            /\ monitor_pc' = "done"
       ELSE UNCHANGED <<result_senders, monitor_pc>>
    /\ UNCHANGED <<cfgVars, fetchVars, frontier, visited, rx_lock, permits,
                   active_workers, pc, url, client_opt, page_links, normalized,
                   exit_cause, result_buf, emitted, result_rx,
                   initial_page_processed>>

\* --------------------------------------------------------------- consumer
\* rx.recv() of the caller (main.rs).
Consume ==
    /\ UNCHANGED <<sessionVars, clockVars, claimed>>
    /\ result_rx = "open"
    /\ result_buf > 0
    /\ result_buf' = result_buf - 1
    /\ UNCHANGED <<cfgVars, monitorVars, fetchVars, frontier, visited, rx_lock,
                   permits, active_workers, pc, url, client_opt, page_links,
                   normalized, exit_cause, emitted, result_rx, result_senders,
                   initial_page_processed>>

\* The caller drops the receiver start() returned.
ConsumerDrop ==
    /\ UNCHANGED <<sessionVars, clockVars, claimed>>
    /\ result_rx = "open"
    /\ result_rx' = "dropped"
    /\ result_buf' = 0
    /\ UNCHANGED <<cfgVars, monitorVars, fetchVars, frontier, visited, rx_lock,
                   permits, active_workers, pc, url, client_opt, page_links,
                   normalized, exit_cause, emitted, result_senders,
                   initial_page_processed>>

\* ------------------------------------------------------------------- Next
EngineNext ==
    \/ \E w \in Workers : WorkerStart(w)
    \/ \E w \in Workers : LockReceiver(w)
    \/ \E w \in Workers : ReceiveUrl(w)
    \/ \E w \in Workers : ReceiveTimeout(w)
    \/ \E w \in Workers : MarkVisited(w)
    \/ \E w \in Workers : Acquire(w)
    \/ \E w \in Workers : ConnectTry(w)
    \/ \E w \in Workers : ConnectReturn(w)
    \/ \E w \in Workers : Scrape(w)
    \/ \E w \in Workers : BranchOnResult(w)
    \/ \E w \in Workers : Emit(w)
    \/ \E w \in Workers : SetFlag(w)
    \/ \E w \in Workers : CheckLink(w)
    \/ \E w \in Workers : SendLink(w)
    \/ \E w \in Workers : FinishPage(w)
    \/ \E w \in Workers : AbortLoop(w)
    \/ \E w \in Workers : CloseClient(w)
    \/ \E w \in Workers : SignalCompletion(w)
    \/ \E w \in Workers : TaskEnd(w)
    \/ Watchdog
    \/ MonitorReceive

Next ==
    \/ EngineNext
    \/ Consume
    \/ ConsumerDrop

Spec == Init /\ [][Next]_vars

\* The crawl with a consumer that keeps reading until the stream is closed
\* (main.rs), under fair scheduling: every task and the consumer get their
\* turn, and a timed wait ends.
ReaderWorkerNext(w) ==
    \/ WorkerStart(w) \/ LockReceiver(w) \/ ReceiveUrl(w) \/ ReceiveTimeout(w)
    \/ MarkVisited(w) \/ Acquire(w) \/ ConnectTry(w) \/ ConnectReturn(w)
    \/ Scrape(w)
    \/ BranchOnResult(w) \/ Emit(w) \/ SetFlag(w) \/ CheckLink(w)
    \/ SendLink(w) \/ FinishPage(w) \/ CloseClient(w)
    \/ SignalCompletion(w) \/ TaskEnd(w)

ReaderNext ==
    \/ \E w \in Workers : WorkerStart(w)
    \/ \E w \in Workers : LockReceiver(w)
    \/ \E w \in Workers : ReceiveUrl(w)
    \/ \E w \in Workers : ReceiveTimeout(w)
    \/ \E w \in Workers : MarkVisited(w)
    \/ \E w \in Workers : Acquire(w)
    \/ \E w \in Workers : ConnectTry(w)
    \/ \E w \in Workers : ConnectReturn(w)
    \/ \E w \in Workers : Scrape(w)
    \/ \E w \in Workers : BranchOnResult(w)
    \/ \E w \in Workers : Emit(w)
    \/ \E w \in Workers : SetFlag(w)
    \/ \E w \in Workers : CheckLink(w)
    \/ \E w \in Workers : SendLink(w)
    \/ \E w \in Workers : FinishPage(w)
    \/ \E w \in Workers : CloseClient(w)
    \/ \E w \in Workers : SignalCompletion(w)
    \/ \E w \in Workers : TaskEnd(w)
    \/ Watchdog
    \/ MonitorReceive
    \/ Consume

FairSpec ==
    /\ Init
    /\ [][ReaderNext]_vars
    /\ \A w \in 1..MaxConcurrency : WF_vars(w \in Workers /\ ReaderWorkerNext(w))
    /\ WF_vars(Watchdog)
    /\ WF_vars(MonitorReceive)
    /\ WF_vars(Consume)

\* The crawl under fair scheduling with a consumer that reads while it holds
\* the stream and may drop it at any time.
WorkerNext(w) == ReaderWorkerNext(w) \/ AbortLoop(w)

DropFairInit == Started(MaxConcurrency, <<1, "raw">>)

DropFairSpec ==
    /\ DropFairInit
    /\ [][Next]_vars
    /\ \A w \in 1..MaxConcurrency : WF_vars(w \in Workers /\ WorkerNext(w))
    /\ WF_vars(Watchdog)
    /\ WF_vars(MonitorReceive)
    /\ WF_vars(Consume)

\* connect_to_webdriver with an endpoint that accepts the connection and
\* never answers: ClientBuilder::connect(..).await is awaited without a
\* timeout, so the call does not return.
ConnectHang(w) ==
    /\ pc[w] = "connect"
    /\ pc' = [pc EXCEPT ![w] = "connect_hung"]
    /\ UNCHANGED <<cfgVars, monitorVars, outVars, fetchVars, sessionVars,
                   clockVars, frontier, visited, rx_lock, permits,
                   active_workers, url, client_opt, claimed, page_links,
                   normalized, exit_cause, initial_page_processed>>

HangNext ==
    \/ ReaderNext
    \/ \E w \in Workers : ConnectHang(w)

HangSpec ==
    /\ Init
    /\ [][HangNext]_vars
    /\ \A w \in 1..MaxConcurrency : WF_vars(w \in Workers /\ ReaderWorkerNext(w))
    /\ WF_vars(Watchdog)
    /\ WF_vars(MonitorReceive)
    /\ WF_vars(Consume)

\* The crawl of a site whose pages carry no links, with a WebDriver that
\* works and a consumer that keeps reading.
ZeroLinkInit == \E seed \in {1} \X Forms : Started(ZeroLinkWorkers, seed)

ZeroLinkNext ==
    \/ \E w \in Workers : WorkerStart(w)
    \/ \E w \in Workers : LockReceiver(w)
    \/ \E w \in Workers : ReceiveUrl(w)
    \/ \E w \in Workers : ReceiveTimeout(w)
    \/ \E w \in Workers : MarkVisited(w)
    \/ \E w \in Workers : Acquire(w)
    \/ \E w \in Workers : ConnectTry(w) /\ pc'[w] = "connected"
    \/ \E w \in Workers : ConnectReturn(w)
    \/ \E w \in Workers : Scrape(w) /\ scrape_result'[w] /\ page_links'[w] = 0
    \/ \E w \in Workers : BranchOnResult(w)
    \/ \E w \in Workers : Emit(w)
    \/ \E w \in Workers : SetFlag(w)
    \/ \E w \in Workers : FinishPage(w)
    \/ \E w \in Workers : CloseClient(w)
    \/ \E w \in Workers : SignalCompletion(w)
    \/ \E w \in Workers : TaskEnd(w)
    \/ Watchdog
    \/ MonitorReceive
    \/ Consume

ZeroLinkSpec == ZeroLinkInit /\ [][ZeroLinkNext]_vars

\* The crawl with the default primary endpoint and with a primary endpoint
\* that is also one of the fallbacks (WEBDRIVER_URL set to it).
WebdriverUrls == {default_webdriver_url, fallback_urls[2]}

ConnectInit ==
    \E n \in 1..MaxConcurrency, endpoint \in WebdriverUrls :
        StartedWith(n, <<1, "raw">>, endpoint)

ConnectSpec == ConnectInit /\ [][Next]_vars

\* get_next_url: the allowance of the timed recv, in seconds.
Min_First(a, b) == a
Min(a, b) == IF a < b THEN a ELSE b
\* u64::saturating_sub
saturating_sub(a, b) == IF b > a THEN 0 ELSE a - b
base_timeout == 5
timeout_duration(worker_id) ==
    IF worker_id = 0
    THEN 5
    ELSE saturating_sub(base_timeout, Min(worker_id, 4))
\* The model's worker w is the code's worker_id w - 1.
WorkerId(w) == w - 1

\* One second passes.  A recv on a non-empty channel, the hand-over of the
\* free crawl_rx mutex and a timeout that is due take no time; everything
\* else (connecting, scraping, waiting for the consumer) takes any time.
Tick ==
    /\ \E w \in Workers : pc[w] \in {"lock", "recv"}
    /\ \A w \in Workers :
          /\ pc[w] \in {"lock", "recv"} => waited[w] < MaxWait
          /\ pc[w] = "recv" =>
                frontier = <<>> /\ recv_timer[w] < timeout_duration(WorkerId(w))
          /\ pc[w] = "lock" => rx_lock # 0
    /\ waited' = [w \in Workers |->
                     IF pc[w] \in {"lock", "recv"} THEN waited[w] + 1 ELSE waited[w]]
    /\ recv_timer' = [w \in Workers |->
                         IF pc[w] = "recv" THEN recv_timer[w] + 1 ELSE recv_timer[w]]
    /\ UNCHANGED <<cfgVars, monitorVars, outVars, fetchVars, sessionVars,
                   frontier, visited, rx_lock, permits, active_workers, pc, url,
                   client_opt, claimed, page_links, normalized, exit_cause,
                   initial_page_processed>>

\* The crawl of a site without links by MaxConcurrency workers, with time:
\* the timed recv ends when the worker's allowance has run out.
TimedInit == Started(MaxConcurrency, <<1, "canon">>)

TimedNext ==
    \/ \E w \in Workers : WorkerStart(w)
    \/ \E w \in Workers : LockReceiver(w)
    \/ \E w \in Workers : ReceiveUrl(w)
    \/ \E w \in Workers :
          ReceiveTimeout(w) /\ recv_timer[w] = timeout_duration(WorkerId(w))
    \/ \E w \in Workers : MarkVisited(w)
    \/ \E w \in Workers : Acquire(w)
    \/ \E w \in Workers : ConnectTry(w) /\ pc'[w] = "connected"
    \/ \E w \in Workers : ConnectReturn(w)
    \/ \E w \in Workers : Scrape(w) /\ scrape_result'[w] /\ page_links'[w] = 0
    \/ \E w \in Workers : BranchOnResult(w)
    \/ \E w \in Workers : Emit(w)
    \/ \E w \in Workers : SetFlag(w)
    \/ \E w \in Workers : FinishPage(w)
    \/ \E w \in Workers : CloseClient(w)
    \/ \E w \in Workers : SignalCompletion(w)
    \/ \E w \in Workers : TaskEnd(w)
    \/ Watchdog
    \/ MonitorReceive
    \/ Consume
    \/ Tick

TimedSpec == TimedInit /\ [][TimedNext]_vars

\* The caller's idle or total timeout runs out.  The values are stored by
\* Pages::with_idle_timeout / with_total_timeout; start() and the tasks it
\* spawns read neither, so no state of the engine changes.
TimeoutElapses ==
    /\ ~timeout_elapsed
    /\ timeout_elapsed' = TRUE
    /\ UNCHANGED <<max_concurrency, start_url, webdriver_url, patterns_compile,
                   libVars, monitorVars, outVars, fetchVars, sessionVars,
                   clockVars, frontier, visited, rx_lock, permits,
                   active_workers, pc, url, client_opt, claimed, page_links,
                   normalized, exit_cause, initial_page_processed>>

CancelInit == \E n \in 1..MaxConcurrency : Started(n, <<1, "raw">>)

CancelNext ==
    \/ Next
    \/ TimeoutElapses

CancelSpec == CancelInit /\ [][CancelNext]_vars

\* start() with a seed that may not parse and patterns that may not compile:
\* `Url::parse(..).expect(..)` and `UrlFilter::new(..).expect(..)` panic
\* before the channels exist and before spawn_workers is called.
InvalidSeed == <<0, "invalid">>
UrlParses_Unchecked(s) == TRUE
UrlParses(s) == s[2] # "invalid"

StartPanics(seed, compile) == ~UrlParses(seed) \/ ~compile

Unspawned(n, seed, compile) ==
    /\ max_concurrency = n
    /\ start_url = seed
    /\ webdriver_url = default_webdriver_url
    /\ patterns_compile = compile
    /\ timeout_elapsed = FALSE
    /\ frontier = <<>>
    /\ visited = {}
    /\ rx_lock = 0
    /\ permits = 0
    /\ active_workers = 0
    /\ pc = [w \in Workers |-> "unspawned"]
    /\ url = [w \in Workers |-> NoUrl]
    /\ client_opt = [w \in Workers |-> FALSE]
    /\ connect_tried = [w \in Workers |-> <<>>]
    /\ sessions_opened = [w \in Workers |-> 0]
    /\ sessions_closed = [w \in Workers |-> 0]
    /\ claimed = {}
    /\ waited = [w \in Workers |-> 0]
    /\ recv_timer = [w \in Workers |-> 0]
    /\ page_links = [w \in Workers |-> 0]
    /\ normalized = [w \in Workers |-> NoUrl]
    /\ nav_attempts = [w \in Workers |-> 0]
    /\ reconnect_attempts = [w \in Workers |-> 0]
    /\ first_error = [w \in Workers |-> "none"]
    /\ scrape_result = [w \in Workers |-> FALSE]
    /\ exit_cause = [w \in Workers |-> "none"]
    /\ failed = {}
    /\ result_buf = 0
    /\ emitted = <<>>
    /\ result_rx = "none"
    /\ result_senders = 0
    /\ completion_chan = 0
    /\ completed_workers = 0
    /\ monitor_pc = "unspawned"
    /\ initial_page_processed = FALSE

Panicked(n, seed, compile) == Unspawned(n, seed, compile) /\ LibraryIdle

StartupInit ==
    \E n \in 1..MaxConcurrency, seed \in {<<1, "canon">>, InvalidSeed},
       compile \in BOOLEAN :
        IF StartPanics(seed, compile)
        THEN Panicked(n, seed, compile)
        ELSE Started(n, seed)

StartupSpec == StartupInit /\ [][Next]_vars

\* The engine before start() is called: what the pure functions of the
\* crate are applied in.
EngineIdle == Unspawned(1, <<1, "canon">>, TRUE)
engineVars ==
    <<max_concurrency, start_url, webdriver_url, patterns_compile,
      timeout_elapsed, monitorVars, outVars, fetchVars, sessionVars, clockVars,
      frontier, visited, rx_lock, permits, active_workers, pc, url, client_opt,
      claimed, page_links, normalized, exit_cause, initial_page_processed>>

\* get_next_url's timeout_duration as a function of worker_id, applied to a
\* pair of worker ids.
WorkerIds == 0..MaxWorkerId

DequeueInit ==
    /\ EngineIdle
    /\ \E i \in WorkerIds, j \in WorkerIds : probe = <<"timeout", i, j>>
    /\ verdict = NoVerdict
    /\ text = NoText
    /\ content = NoText
    /\ legacy = NoLegacy

ComputeTimeouts ==
    /\ verdict = NoVerdict
    /\ probe[1] = "timeout"
    /\ verdict' = <<timeout_duration(probe[2]), timeout_duration(probe[3])>>
    /\ UNCHANGED <<engineVars, probe, text, content, legacy>>

DequeueNext == ComputeTimeouts

DequeueSpec == DequeueInit /\ [][DequeueNext]_vars

\* should_crawl applied to one URL under one configuration.  Paths are
\* sequences of string pieces, so <<"/", "docs", "ify">> is "/docsify".
ProbeDomains == {<<>>, <<"example.com">>, <<"sub.example.com">>}
ProbePaths == {<<"/">>, <<"/", "docs", "/", "a">>, <<"/", "docs", "ify">>}
ProbeUrls ==
    {[domain |-> d, path |-> p, str |-> <<d, p>>] :
        d \in ProbeDomains, p \in ProbePaths}
\* Two compiled patterns: `ify` and `^https://sub\.`.
IfyPattern == {<<d, p>> : d \in ProbeDomains, p \in {<<"/", "docs", "ify">>}}
SubPattern == {<<d, p>> : d \in {<<"sub.example.com">>}, p \in ProbePaths}
ProbePatterns == {IfyPattern, SubPattern}
ProbeConfigs ==
    [allow_external : BOOLEAN,
     required_domain : {<<>>, <<"example.com">>},
     required_path_prefix : {<<>>, <<<<"/", "docs">>>>},
     exclude_regexes : SUBSET ProbePatterns,
     include_regexes : SUBSET ProbePatterns]

FilterInit ==
    /\ EngineIdle
    /\ \E cfg \in ProbeConfigs, target \in ProbeUrls :
          probe = <<"filter", cfg, target>>
    /\ verdict = NoVerdict
    /\ text = NoText
    /\ content = NoText
    /\ legacy = NoLegacy

ApplyFilter ==
    /\ verdict = NoVerdict
    /\ probe[1] = "filter"
    /\ verdict' = <<UrlFilter_is_in_domain_scope(probe[2], probe[3]),
                    UrlFilter_should_crawl(probe[2], probe[3])>>
    /\ UNCHANGED <<engineVars, probe, text, content, legacy>>

FilterNext == ApplyFilter

FilterSpec == FilterInit /\ [][FilterNext]_vars

\* ------------------------------------------------------------ text parser
\* A string is a sequence of characters.
LF == "\n"
CR == "\r"
Chars == {"a", " ", CR, LF}

\* char::is_whitespace
is_whitespace(c) == c \in {" ", CR, LF}

RECURSIVE trim_start(_)
trim_start(s) ==
    IF s # <<>> /\ is_whitespace(Head(s)) THEN trim_start(Tail(s)) ELSE s

RECURSIVE trim_end(_)
trim_end(s) ==
    IF s # <<>> /\ is_whitespace(s[Len(s)])
    THEN trim_end(SubSeq(s, 1, Len(s) - 1))
    ELSE s

\* str::trim
trim(s) == trim_end(trim_start(s))

\* str::split(char): the pieces between the occurrences of c.
RECURSIVE split_char(_, _)
split_char(s, c) ==
    IF \A i \in 1..Len(s) : s[i] # c
    THEN <<s>>
    ELSE LET k == CHOOSE i \in 1..Len(s) :
                      s[i] = c /\ \A j \in 1..(i - 1) : s[j] # c
         IN  <<SubSeq(s, 1, k - 1)>> \o split_char(SubSeq(s, k + 1, Len(s)), c)

\* str::lines: split at "\n", a "\r" before the "\n" belongs to the line
\* ending, and a final line ending does not start another line.
strip_cr(l) ==
    IF l # <<>> /\ l[Len(l)] = CR THEN SubSeq(l, 1, Len(l) - 1) ELSE l
lines(t) ==
    LET pieces == split_char(t, LF)
        n == Len(pieces)
        terminated == [i \in 1..(n - 1) |-> strip_cr(pieces[i])]
    IN  IF pieces[n] = <<>> THEN terminated ELSE terminated \o <<pieces[n]>>

\* [String]::join
RECURSIVE join(_, _)
join(parts, sep) ==
    IF parts = <<>> THEN <<>>
    ELSE IF Len(parts) = 1 THEN parts[1]
    ELSE parts[1] \o sep \o join(Tail(parts), sep)

\* str::split_whitespace
RECURSIVE split_whitespace(_)
split_whitespace(s) ==
    LET t == trim_start(s)
    IN  IF t = <<>> THEN <<>>
        ELSE LET k == IF \E i \in 1..Len(t) : is_whitespace(t[i])
                      THEN CHOOSE i \in 1..Len(t) :
                               /\ is_whitespace(t[i])
                               /\ \A j \in 1..(i - 1) : ~is_whitespace(t[j])
                      ELSE Len(t) + 1
             IN  <<SubSeq(t, 1, k - 1)>> \o split_whitespace(SubSeq(t, k, Len(t)))

\* text.split("\n\n")
RECURSIVE split_blank(_)
split_blank(s) ==
    IF \E i \in 1..(Len(s) - 1) : s[i] = LF /\ s[i + 1] = LF
    THEN LET k == CHOOSE i \in 1..(Len(s) - 1) :
                      /\ s[i] = LF /\ s[i + 1] = LF
                      /\ \A j \in 1..(i - 1) : ~(s[j] = LF /\ s[j + 1] = LF)
         IN  <<SubSeq(s, 1, k - 1)>> \o split_blank(SubSeq(s, k + 2, Len(s)))
    ELSE <<s>>

\* `if !current_paragraph.is_empty()` of split_into_paragraphs.
PushParagraph_Always(current_paragraph) == TRUE
PushParagraph(current_paragraph) == current_paragraph # <<>>

RECURSIVE paragraphs_from(_, _, _)
paragraphs_from(ls, paragraphs, current_paragraph) ==
    IF ls = <<>>
    THEN IF PushParagraph(current_paragraph)
         THEN Append(paragraphs, current_paragraph)
         ELSE paragraphs
    ELSE LET trimmed == trim(Head(ls))
         IN  IF trimmed = <<>>
             THEN IF PushParagraph(current_paragraph)
                  THEN paragraphs_from(Tail(ls),
                                       Append(paragraphs, current_paragraph),
                                       <<>>)
                  ELSE paragraphs_from(Tail(ls), paragraphs, current_paragraph)
             ELSE paragraphs_from(Tail(ls), paragraphs,
                                  Append(current_paragraph, trimmed))

split_into_paragraphs(t) == paragraphs_from(lines(t), <<>>, <<>>)

process_paragraph(paragraph, options) ==
    IF paragraph = <<>> THEN <<>>
    ELSE IF options.preserve_line_breaks THEN join(paragraph, <<LF>>)
    ELSE join(paragraph, <<" ">>)

process_paragraphs(paragraphs, options) ==
    [i \in 1..Len(paragraphs) |-> process_paragraph(paragraphs[i], options)]

normalize_whitespace_in_segment(segment) ==
    join(split_whitespace(segment), <<" ">>)

normalize_whitespace(t, options) ==
    IF ~options.normalize_whitespace THEN t
    ELSE IF ~options.preserve_paragraphs /\ ~options.preserve_line_breaks
    THEN join(split_whitespace(t), <<" ">>)
    ELSE IF options.preserve_paragraphs /\ ~options.preserve_line_breaks
    THEN LET paragraphs == split_blank(t)
         IN  join([i \in 1..Len(paragraphs) |->
                      normalize_whitespace_in_segment(paragraphs[i])],
                  <<LF, LF>>)
    ELSE IF options.preserve_line_breaks
    THEN LET ls == lines(t)
         IN  join([i \in 1..Len(ls) |->
                      IF trim(ls[i]) = <<>>
                      THEN ls[i]
                      ELSE normalize_whitespace_in_segment(ls[i])],
                  <<LF>>)
    ELSE t

join_paragraphs(paragraphs, options) ==
    IF paragraphs = <<>> THEN <<>>
    ELSE normalize_whitespace(IF options.preserve_paragraphs
                              THEN join(paragraphs, <<LF, LF>>)
                              ELSE join(paragraphs, <<" ">>),
                              options)

parse_with_options(t, options) ==
    IF trim(t) = <<>> THEN <<>>
    ELSE join_paragraphs(process_paragraphs(split_into_paragraphs(t), options),
                         options)

\* parse_with_options applied to one text under one set of options.
TextParserOptions ==
    [preserve_paragraphs : BOOLEAN,
     preserve_line_breaks : BOOLEAN,
     normalize_whitespace : BOOLEAN]
Texts == UNION {[1..n -> Chars] : n \in 0..MaxTextLen}

TextInit ==
    /\ EngineIdle
    /\ \E options \in TextParserOptions : probe = <<"text", options>>
    /\ verdict = NoVerdict
    /\ text \in Texts
    /\ content = NoText
    /\ legacy = NoLegacy

ParseText ==
    /\ content = NoText
    /\ probe[1] = "text"
    /\ content' = parse_with_options(text, probe[2])
    /\ UNCHANGED <<engineVars, probe, verdict, text, legacy>>

TextNext == ParseText

TextSpec == TextInit /\ [][TextNext]_vars

\* ---------------------------------------------------------- legacy engine
\* lib.rs start_crawler.  `legacy` holds the state after the function has
\* returned: the original crawl_tx and result_tx are dropped, every worker
\* owns a clone of both and of the Arc around the one shared client, and the
\* cleanup task owns one more clone of that Arc.
LegacyStarted(n, seed) ==
    [n |-> n,
     start_url |-> seed,
     frontier |-> <<seed>>,
     visited |-> {},
     rx_lock |-> 0,
     pc |-> [w \in 1..n |-> "lock"],
     url |-> [w \in 1..n |-> NoUrl],
     links |-> [w \in 1..n |-> 0],
     link_str |-> [w \in 1..n |-> NoUrl],
     crawl_senders |-> n,
     result_senders |-> n,
     result_rx |-> "open",
     result_buf |-> 0,
     emitted |-> <<>>,
     strong_count |-> n + 1,
     client_closed |-> FALSE]

\* The link tests of the worker loop: skip_exts on the path, the domain when
\* the URL has one, the path prefix.
LegacyFollows(seed, resolved) ==
    /\ resolved[1] # AssetPage
    /\ UrlDomain(resolved) = UrlDomain(ParseUrl(seed))
    /\ StartsWith(UrlPath(resolved), UrlPath(ParseUrl(seed)))

\* crawl_rx.lock().await
LegacyLock(w) ==
    /\ legacy.pc[w] = "lock"
    /\ legacy.rx_lock = 0
    /\ legacy' = [legacy EXCEPT !.rx_lock = w, !.pc[w] = "recv"]
    /\ UNCHANGED <<engineVars, probe, verdict, text, content>>

\* rx.recv().await under the guard: Some(url) when the Frontier has one,
\* None once the channel is empty and every crawl_tx is dropped, and no
\* return otherwise.
LegacyRecv(w) ==
    /\ legacy.pc[w] = "recv"
    /\ IF legacy.frontier # <<>>
       THEN legacy' = [legacy EXCEPT !.url[w] = Head(legacy.frontier),
                                     !.frontier = Tail(legacy.frontier),
                                     !.rx_lock = 0,
                                     !.pc[w] = "mark"]
       ELSE /\ legacy.crawl_senders = 0
            /\ legacy' = [legacy EXCEPT !.rx_lock = 0, !.pc[w] = "exit"]
    /\ UNCHANGED <<engineVars, probe, verdict, text, content>>

\* seen.contains / seen.insert under the visited lock.
LegacyMark(w) ==
    /\ legacy.pc[w] = "mark"
    /\ IF legacy.url[w] \in legacy.visited
       THEN legacy' = [legacy EXCEPT !.url[w] = NoUrl, !.pc[w] = "lock"]
       ELSE legacy' = [legacy EXCEPT !.visited = @ \cup {legacy.url[w]},
                                     !.pc[w] = "scrape"]
    /\ UNCHANGED <<engineVars, probe, verdict, text, content>>

\* scrape(&client, &url): a page with its links, or None.
LegacyScrape(w) ==
    /\ legacy.pc[w] = "scrape"
    /\ \E page \in BOOLEAN, n \in LinkCounts :
         IF page
         THEN legacy' = [legacy EXCEPT !.links[w] = n, !.pc[w] = "emit"]
         ELSE /\ n = 0
              /\ legacy' = [legacy EXCEPT !.url[w] = NoUrl, !.pc[w] = "lock"]
    /\ UNCHANGED <<engineVars, probe, verdict, text, content>>

\* result_tx.send(page.clone()).await, `break` on Err.
LegacyEmit(w) ==
    /\ legacy.pc[w] = "emit"
    /\ IF legacy.result_rx = "dropped"
       THEN legacy' = [legacy EXCEPT !.pc[w] = "exit"]
       ELSE /\ legacy.result_buf < ResultCap
            /\ legacy' = [legacy EXCEPT !.result_buf = @ + 1,
                                         !.emitted = Append(@, legacy.url[w]),
                                         !.pc[w] = "links"]
    /\ UNCHANGED <<engineVars, probe, verdict, text, content>>

\* One pass of `for link in page.links` up to the send.
LegacyLink(w) ==
    /\ legacy.pc[w] = "links"
    /\ legacy.links[w] > 0
    /\ \E link \in Hrefs :
         LET resolved == Join(ParseUrl(legacy.url[w]), link)
             link_str == normalize_url(resolved)
         IN  IF LegacyFollows(legacy.start_url, resolved)
                /\ link_str \notin legacy.visited
             THEN legacy' = [legacy EXCEPT !.links[w] = @ - 1,
                                           !.link_str[w] = link_str,
                                           !.pc[w] = "send"]
             ELSE legacy' = [legacy EXCEPT !.links[w] = @ - 1]
    /\ UNCHANGED <<engineVars, probe, verdict, text, content>>

\* crawl_tx.send(link_str).await
LegacySend(w) ==
    /\ legacy.pc[w] = "send"
    /\ Len(legacy.frontier) < FrontierCap
    /\ legacy' = [legacy EXCEPT !.frontier = Append(@, legacy.link_str[w]),
                                 !.link_str[w] = NoUrl,
                                 !.pc[w] = "links"]
    /\ UNCHANGED <<engineVars, probe, verdict, text, content>>

\* The link loop is through: back to the head of the while loop.
LegacyNextUrl(w) ==
    /\ legacy.pc[w] = "links"
    /\ legacy.links[w] = 0
    /\ legacy' = [legacy EXCEPT !.url[w] = NoUrl, !.pc[w] = "lock"]
    /\ UNCHANGED <<engineVars, probe, verdict, text, content>>

\* The worker task ends and drops its crawl_tx, result_tx and client clones.
LegacyShutDown(w) ==
    /\ legacy.pc[w] = "exit"
    /\ legacy' = [legacy EXCEPT !.crawl_senders = @ - 1,
                                 !.result_senders = @ - 1,
                                 !.strong_count = @ - 1,
                                 !.pc[w] = "done"]
    /\ UNCHANGED <<engineVars, probe, verdict, text, content>>

\* The cleanup task: once Arc::strong_count is 1, try_unwrap and close.
LegacyCleanup ==
    /\ ~legacy.client_closed
    /\ legacy.strong_count = 1
    /\ legacy' = [legacy EXCEPT !.strong_count = 0, !.client_closed = TRUE]
    /\ UNCHANGED <<engineVars, probe, verdict, text, content>>

LegacyConsume ==
    /\ legacy.result_rx = "open"
    /\ legacy.result_buf > 0
    /\ legacy' = [legacy EXCEPT !.result_buf = @ - 1]
    /\ UNCHANGED <<engineVars, probe, verdict, text, content>>

LegacyConsumerDrop ==
    /\ legacy.result_rx = "open"
    /\ legacy' = [legacy EXCEPT !.result_rx = "dropped", !.result_buf = 0]
    /\ UNCHANGED <<engineVars, probe, verdict, text, content>>

LegacyInit ==
    /\ EngineIdle
    /\ probe = NoProbe
    /\ verdict = NoVerdict
    /\ text = NoText
    /\ content = NoText
    /\ \E n \in 1..MaxConcurrency, seed \in {1} \X Forms :
          legacy = LegacyStarted(n, seed)

LegacyWorkerNext(w) ==
    \/ LegacyLock(w) \/ LegacyRecv(w) \/ LegacyMark(w) \/ LegacyScrape(w)
    \/ LegacyEmit(w) \/ LegacyLink(w) \/ LegacySend(w) \/ LegacyNextUrl(w)
    \/ LegacyShutDown(w)

LegacyNext ==
    \/ \E w \in 1..legacy.n : LegacyLock(w)
    \/ \E w \in 1..legacy.n : LegacyRecv(w)
    \/ \E w \in 1..legacy.n : LegacyMark(w)
    \/ \E w \in 1..legacy.n : LegacyScrape(w)
    \/ \E w \in 1..legacy.n : LegacyEmit(w)
    \/ \E w \in 1..legacy.n : LegacyLink(w)
    \/ \E w \in 1..legacy.n : LegacySend(w)
    \/ \E w \in 1..legacy.n : LegacyNextUrl(w)
    \/ \E w \in 1..legacy.n : LegacyShutDown(w)
    \/ LegacyCleanup
    \/ LegacyConsume
    \/ LegacyConsumerDrop

LegacySpec ==
    /\ LegacyInit
    /\ [][LegacyNext]_vars
    /\ \A w \in 1..MaxConcurrency :
          WF_vars(w \in 1..legacy.n /\ LegacyWorkerNext(w))
    /\ WF_vars(LegacyCleanup)
    /\ WF_vars(LegacyConsume)

\* ----------------------------------------------------------------- claims
StreamClosed == result_senders = 0
Signalled(w) == pc[w] \in {"exit", "done"}
Held == Cardinality({w \in Workers : HoldsPermit(w)})

\* C1: no two emitted PageRecords have URLs with the same normalized form,
\* the seed included.
C1_AtMostOnceFetch ==
    \A i, j \in 1..Len(emitted) :
        i < j => NormalForm(emitted[i]) # NormalForm(emitted[j])

\* C2: the monitor drops its result sender once, and only when every worker
\* has left its loop and signalled completion; the stream is closed only when
\* every worker task has ended, stays closed, and nothing is emitted after.
C2_CloseAfterAllWorkers ==
    /\ [](monitor_pc = "done" =>
            /\ completed_workers = max_concurrency
            /\ \A w \in Workers : Signalled(w))
    /\ [](StreamClosed => monitor_pc = "done" /\ \A w \in Workers : pc[w] = "done")
    /\ [][monitor_pc = "done" => monitor_pc' = "done"]_vars
    /\ [][StreamClosed => (StreamClosed' /\ emitted' = emitted)]_vars

C2_Witness == StreamClosed /\ Len(emitted) >= 1 /\ max_concurrency = 2

\* C4: the permits held never exceed max_concurrency, and available plus
\* held permits equal max_concurrency.
C4_ThroughputBound ==
    /\ permits >= 0
    /\ Held <= max_concurrency
    /\ permits + Held = max_concurrency

C4_Witness == max_concurrency = 2 /\ permits = 0 /\ Held = 2

\* C5: the Frontier never holds the same URL twice.
C5_EnqueueGate ==
    \A i, j \in 1..Len(frontier) : i < j => frontier[i] # frontier[j]

\* C6: a process_url call whose first scrape met a lost session makes exactly
\* one reconnect attempt, and two navigation attempts when the reconnect
\* succeeded.
C6_ReconnectThenRetry ==
    \A w \in Workers :
        (pc[w] = "result" /\ first_error[w] = "session_lost") =>
            /\ reconnect_attempts[w] = 1
            /\ nav_attempts[w] \in {1, 2}

\* C3: under fair scheduling and a reading consumer every worker task ends
\* and the output stream is closed.
C3_EventualTermination ==
    <>(StreamClosed /\ \A w \in Workers : pc[w] = "done")

\* C7: after a seed page without links the stream is closed with exactly one
\* record emitted and before every worker has waited out its dequeue timeout.
C7_ZeroLinkTermination ==
    StreamClosed =>
        /\ Len(emitted) = 1
        /\ \E w \in Workers : exit_cause[w] # "timeout"

\* C8: the watchdog's step with the first-page flag unset changes the crawl
\* state: it closes the stream, drops a sender, or moves a worker or the
\* Frontier.
C8_WatchdogBeginsShutdown ==
    [][(monitor_pc = "grace" /\ monitor_pc' = "wait" /\ ~initial_page_processed) =>
          \/ result_senders' < result_senders
          \/ result_rx' # result_rx
          \/ pc' # pc
          \/ frontier' # frontier]_vars

\* C9: a worker whose send of a PageRecord failed enqueues nothing, closes
\* its client, returns its permit, never dequeues or fetches again, and its
\* completion signal finds room in the channel.
C9_EmissionFailureFatal ==
    /\ [](\A w \in Workers :
            exit_cause[w] = "emit_failed" =>
                /\ pc[w] \in {"abort", "signal", "exit", "done"}
                /\ pc[w] # "abort" => ~client_opt[w])
    /\ [](\A w \in Workers : pc[w] = "signal" => completion_chan < max_concurrency)
    /\ [](completion_chan + completed_workers
            = Cardinality({w \in Workers : Signalled(w)}))
    /\ [][\A w \in Workers :
            (exit_cause[w] # "emit_failed" /\ exit_cause'[w] = "emit_failed") =>
                UNCHANGED <<frontier, visited, emitted, permits>>]_vars
    /\ [][\A w \in Workers :
            (pc[w] = "abort" /\ pc'[w] # "abort") =>
                /\ pc'[w] = "signal"
                /\ permits' = permits + 1
                /\ UNCHANGED <<frontier, visited, emitted>>]_vars

C9_Witness ==
    \E w \in Workers :
        exit_cause[w] = "emit_failed" /\ pc[w] = "done" /\ Len(emitted) >= 1

\* C10: a failed fetch of u ends the iteration with the permit returned and
\* no record for u; u stays in VisitedSet and is never enqueued or fetched
\* again.
C10_PerUrlErrorsAbsorbed ==
    /\ [](failed \subseteq visited)
    /\ [](\A i \in 1..Len(emitted) : emitted[i] \notin failed)
    /\ [][failed' # failed =>
            /\ \E w \in Workers : pc[w] \in {"connect_failed", "result"} /\ pc'[w] = "lock"
            /\ permits' = permits + 1
            /\ emitted' = emitted]_vars
    /\ [][\A w \in Workers :
            (pc[w] = "mark" /\ pc'[w] = "acquire") => url[w] \notin failed]_vars
    /\ [][\A w \in Workers :
            (pc[w] = "send" /\ pc'[w] = "links") => normalized[w] \notin failed]_vars

\* The Frontier item at position i is still the seed start() queued.
IsSeedItem(i) == i = 1 /\ frontier[i] = start_url /\ start_url \notin visited
InScope(u) ==
    /\ required_domain # <<>> /\ UrlDomain(u) = required_domain[1]
    /\ required_path_prefix # <<>> /\ StartsWith(UrlPath(u), required_path_prefix[1])
Fetching(w) == pc[w] \in {"connect", "connected", "connect_failed", "scrape", "result"}

\* C11: with allow_external = false every Frontier item other than the seed
\* has the seed's domain and a path below the seed's path, is fragment-free,
\* and is the normalized form of a link that passed should_crawl; every URL
\* a worker fetches is in the same scope.
C11_ScopeContainment ==
    /\ ~allow_external
    /\ \A i \in 1..Len(frontier) :
          ~IsSeedItem(i) =>
              /\ InScope(frontier[i])
              /\ frontier[i][2] = "canon"
              /\ normalize_url(frontier[i]) = frontier[i]
              /\ \E h \in Hrefs :
                    /\ should_crawl(ParseUrl(h))
                    /\ normalize_url(ParseUrl(h)) = frontier[i]
    /\ \A w \in Workers : Fetching(w) => InScope(ParseUrl(url[w]))

C11_Witness ==
    /\ start_url = <<1, "raw">>
    /\ frontier = <<(<<2, "canon">>)>>
    /\ \E w \in Workers : pc[w] = "scrape" /\ url[w] = <<1, "canon">>

MatchesExclude(s) == \E r \in exclude_regexes : ParseUrl(s) \in r

\* C12: no URL that matches an exclude pattern is fetched or emitted, however
\* it entered the Frontier and whether or not an include pattern matches it.
C12_ExcludePrecedence ==
    /\ \A w \in Workers : pc[w] \in {"scrape", "result"} => ~MatchesExclude(url[w])
    /\ \A i \in 1..Len(emitted) : ~MatchesExclude(emitted[i])

\* Two URL strings that parse to URLs equal in everything but the fragment.
DifferOnlyInFragment(s, t) ==
    /\ ParseUrl(s) # ParseUrl(t)
    /\ ParseUrl(s)[1] = ParseUrl(t)[1]

\* C13: normalize_url is idempotent, keeps everything but the fragment, maps
\* URLs that differ only in the fragment to one key, and of two such URLs at
\* most one is fetched and emitted during a crawl.
C13_FragmentNormalization ==
    /\ \A u \in UrlStrings :
          /\ normalize_url(normalize_url(u)) = normalize_url(u)
          /\ normalize_url(u)[1] = u[1]
          /\ u[2] = "canon" => normalize_url(u) = u
    /\ \A u, v \in UrlStrings :
          DifferOnlyInFragment(u, v) => normalize_url(u) = normalize_url(v)
    /\ \A i, j \in 1..Len(emitted) :
          i < j => ~DifferOnlyInFragment(emitted[i], emitted[j])

\* C14: under fair scheduling and a reading consumer, a link that passed
\* should_crawl and the visited test, and whose worker waits to send it, is
\* eventually placed into the Frontier.
C14_BackpressureWithoutLoss ==
    \A w \in 1..MaxConcurrency :
        (w \in Workers /\ pc[w] = "send") ~> (w \in Workers /\ pc[w] = "links")

\* C15: the permits that are out are held by workers connecting, navigating
\* or reading only; a worker that emits a record or works through the page's
\* links holds none.
C15_PermitReleasedAfterFetch ==
    /\ permits >= max_concurrency - Cardinality({w \in Workers : Fetching(w)})
    /\ \A w \in Workers :
          pc[w] \in {"emit", "flag", "links", "send"} =>
              permits + Cardinality({v \in Workers \ {w} : HoldsPermit(v)})
                  = max_concurrency

\* C16: a worker tries to connect only while it holds a URL it has marked as
\* visited itself; a worker that claimed no URL has no session and has tried
\* none; no worker opens more than one session, so the sessions opened are
\* at most as many as the workers that claimed a URL.
C16_LazySession ==
    /\ [](\A w \in Workers :
            /\ sessions_opened[w] <= (IF w \in claimed THEN 1 ELSE 0)
            /\ w \notin claimed => ~client_opt[w] /\ connect_tried[w] = <<>>)
    /\ [](Cardinality({w \in Workers : sessions_opened[w] > 0})
            <= Cardinality(claimed))
    /\ [][\A w \in Workers :
            (connect_tried'[w] # connect_tried[w] /\ connect_tried'[w] # <<>>) =>
                /\ w \in claimed
                /\ url[w] # NoUrl
                /\ url[w] \in visited]_vars

C16_Witness ==
    /\ max_concurrency = 2
    /\ \E w, v \in Workers :
          /\ pc[w] = "done" /\ w \notin claimed /\ sessions_opened[w] = 0
          /\ pc[v] = "done" /\ v \in claimed /\ sessions_opened[v] = 1
    /\ Len(emitted) = 2

\* C17: a worker closes its session once, when its loop has ended by a
\* dequeue timeout or a failed emission, never while the loop runs; it
\* navigates only with a session that was not closed, and after it signalled
\* completion it holds no open session.
C17_SessionLifetime ==
    /\ [](\A w \in Workers :
            /\ sessions_closed[w] <= sessions_opened[w]
            /\ sessions_closed[w] <= 1
            /\ sessions_closed[w] > 0 =>
                  pc[w] \in {"signal", "exit", "done"} /\ ~client_opt[w]
            /\ pc[w] \in {"scrape", "result"} =>
                  client_opt[w] /\ sessions_closed[w] = 0
            /\ pc[w] \in {"signal", "exit", "done"} =>
                  ~client_opt[w] /\ sessions_closed[w] = sessions_opened[w])
    /\ [][\A w \in Workers :
            sessions_closed'[w] # sessions_closed[w] =>
                /\ pc[w] \in {"close", "abort"}
                /\ exit_cause[w] \in {"timeout", "emit_failed"}
                /\ pc'[w] = "signal"]_vars

C17_Witness ==
    \E w, v \in Workers :
        /\ pc[w] = "done" /\ exit_cause[w] = "timeout"
        /\ pc[v] = "done" /\ exit_cause[v] = "emit_failed"
        /\ sessions_opened[w] = 1 /\ sessions_closed[w] = 1
        /\ sessions_opened[v] = 1 /\ sessions_closed[v] = 1

\* The fallback endpoints that differ from the primary, in the list's order.
FallbacksAfterPrimary == SelectSeq(fallback_urls, LAMBDA f : f # webdriver_url)

\* C18: a connect call tries the primary endpoint first and then the
\* fallbacks that differ from it, in their order, each once, and only while
\* nothing has succeeded; it gives up only when all were tried.  When all
\* failed the worker drops the URL, keeps no session, goes back to dequeuing,
\* and a worker without a session connects again for its next URL.
C18_ConnectFallback ==
    /\ [](\A w \in Workers :
            LET t == connect_tried[w]
            IN  /\ t # <<>> => t[1] = webdriver_url
                /\ Len(t) <= 1 + Len(FallbacksAfterPrimary)
                /\ \A i \in 2..Len(t) : t[i] = FallbacksAfterPrimary[i - 1]
                /\ \A i, j \in 1..Len(t) : i < j => t[i] # t[j]
                /\ pc[w] = "connect_failed" =>
                      Len(t) = 1 + Len(FallbacksAfterPrimary)
                /\ pc[w] \in {"connect", "connected", "connect_failed"} =>
                      ~client_opt[w])
    /\ [][\A w \in Workers :
            Len(connect_tried'[w]) > Len(connect_tried[w]) =>
                /\ pc[w] = "connect"
                /\ Len(connect_tried'[w]) = Len(connect_tried[w]) + 1]_vars
    /\ [][\A w \in Workers :
            pc[w] = "connected" =>
                /\ connect_tried'[w] \in {connect_tried[w], <<>>}
                /\ pc'[w] \in {"connected", "scrape"}]_vars
    /\ [][\A w \in Workers :
            (pc[w] = "connect_failed" /\ pc'[w] # "connect_failed") =>
                /\ pc'[w] = "lock"
                /\ ~client_opt'[w]
                /\ exit_cause'[w] = "none"
                /\ UNCHANGED <<emitted, frontier, visited>>]_vars
    /\ [][\A w \in Workers :
            (pc[w] = "acquire" /\ pc'[w] # "acquire" /\ ~client_opt[w]) =>
                pc'[w] = "connect" /\ connect_tried'[w] = <<>>]_vars

\* The first worker is still on the seed's page; the second one gave up on
\* one link and now connects for the next, at the second fallback it tries.
C18_Witness ==
    \E w, v \in Workers :
        /\ w # v
        /\ webdriver_url = fallback_urls[2]
        /\ url[v] = start_url /\ pc[v] = "links"
        /\ failed # {} /\ url[w] \notin failed
        /\ pc[w] = "connected"
        /\ connect_tried[w] = <<fallback_urls[2], fallback_urls[1], fallback_urls[3]>>

\* C19: taking a URL from the Frontier changes the Frontier only, and when
\* the URL is in VisitedSet already the worker goes back to dequeuing with
\* permits, sessions, navigations, output, VisitedSet and the first-page flag
\* as they were.
C19_VisitedDequeueFrame ==
    /\ [][\A w \in Workers :
            (pc[w] = "recv" /\ pc'[w] = "mark") =>
                /\ frontier' = Tail(frontier)
                /\ url'[w] = Head(frontier)
                /\ UNCHANGED <<permits, client_opt, sessionVars, fetchVars,
                               outVars, visited, claimed,
                               initial_page_processed>>]_vars
    /\ [][\A w \in Workers :
            (pc[w] = "mark" /\ url[w] \in visited /\ pc'[w] # "mark") =>
                /\ pc'[w] = "lock"
                /\ UNCHANGED <<permits, client_opt, sessionVars, fetchVars,
                               outVars, visited, claimed, frontier,
                               initial_page_processed>>]_vars
    /\ [](\A w \in Workers : pc[w] \in {"lock", "recv", "mark"} => ~HoldsPermit(w))

C19_Witness ==
    \E w \in Workers :
        /\ pc[w] = "mark" /\ url[w] \in visited
        /\ client_opt[w] /\ Len(emitted) >= 1 /\ frontier # <<>>

\* C20: a worker that has called get_next_url and has not got its answer yet
\* has waited no longer than its own timeout allowance.
C20_PerCallerTimeout ==
    \A w \in Workers :
        pc[w] \in {"lock", "recv"} => waited[w] <= timeout_duration(WorkerId(w))

\* C22: a worker whose URL is not classified Html has a page without links
\* and never sends a link to the Frontier.
C22_TextResourcesNoLinks ==
    \A w \in Workers :
        ~should_extract_links(from_url(url[w])) =>
            page_links[w] = 0 /\ pc[w] # "send"

C22_Witness ==
    \E w \in Workers :
        /\ from_url(url[w]) = "Pdf"
        /\ pc[w] = "links"
        /\ \E i \in 1..Len(emitted) : emitted[i] = url[w]

\* C21: once the idle or total timeout has run out, no worker takes another
\* URL from the Frontier.
C21_Cancellation ==
    [][\A w \in Workers :
         timeout_elapsed => ~(pc[w] = "recv" /\ pc'[w] = "mark")]_vars

\* C23: when the seed does not parse or a pattern does not compile, no worker
\* is spawned, no URL is handed to a worker, no session is opened and no
\* PageRecord is emitted.
C23_StartupErrors ==
    (start_url = InvalidSeed \/ ~patterns_compile) =>
        /\ \A w \in Workers :
              /\ pc[w] = "unspawned"
              /\ url[w] = NoUrl
              /\ sessions_opened[w] = 0
              /\ connect_tried[w] = <<>>
        /\ active_workers = 0
        /\ visited = {}
        /\ claimed = {}
        /\ emitted = <<>>

C23_Witness ==
    /\ start_url = InvalidSeed
    /\ ~patterns_compile
    /\ max_concurrency = 2
    /\ \A w \in Workers : pc[w] = "unspawned"

C25_FirstPageFlag ==
    /\ ~initial_page_processed
    /\ [][/\ initial_page_processed => initial_page_processed'
          /\ initial_page_processed' => Len(emitted') >= 1
          /\ (~initial_page_processed /\ initial_page_processed') =>
                \E w \in Workers :
                    /\ pc[w] = "flag"
                    /\ emitted # <<>>
                    /\ emitted[Len(emitted)] = url[w]]_vars

C25_Witness ==
    /\ initial_page_processed
    /\ Len(emitted) = 1
    /\ result_rx = "dropped"
    /\ \E w \in Workers : exit_cause[w] = "emit_failed"

\* C26: the domain check accepts a URL iff (allow_external and no required
\* domain) or (a required domain is set and the URL's domain equals it); so
\* nothing passes with allow_external = false and no required domain, and a
\* URL without a domain or on a subdomain fails whenever a domain is required.
C26_DomainScope ==
    verdict # NoVerdict =>
        LET cfg == probe[2]
            target == probe[3]
            required == cfg.required_domain
        IN  /\ verdict[1] <=>
                  \/ cfg.allow_external /\ required = <<>>
                  \/ required # <<>> /\ target.domain = required
            /\ (~cfg.allow_external /\ required = <<>>) => ~verdict[1]
            /\ (required # <<>> /\ target.domain = <<>>) => ~verdict[1]
            /\ (required # <<>> /\ target.domain = <<"sub.example.com">>)
                  => ~verdict[1]
            /\ verdict[2] => verdict[1]

C26_Witness ==
    /\ verdict # NoVerdict
    /\ probe[2].allow_external
    /\ probe[2].required_domain = <<"example.com">>
    /\ probe[3].domain = <<"sub.example.com">>
    /\ ~verdict[1]

\* C27: should_crawl is true iff the domain check passes, the path has the
\* required prefix as a raw string prefix when one is set, no exclude pattern
\* matches, and the include list is empty or one of its patterns matches.
C27_ShouldCrawlReference ==
    verdict # NoVerdict =>
        LET cfg == probe[2]
            target == probe[3]
            prefix == cfg.required_path_prefix
        IN  verdict[2] <=>
              /\ verdict[1]
              /\ \/ prefix = <<>>
                 \/ /\ Len(prefix[1]) <= Len(target.path)
                    /\ SubSeq(target.path, 1, Len(prefix[1])) = prefix[1]
              /\ \A r \in cfg.exclude_regexes : target.str \notin r
              /\ \/ cfg.include_regexes = {}
                 \/ \E r \in cfg.include_regexes : target.str \in r

C27_Witness ==
    /\ verdict # NoVerdict
    /\ probe[2].required_path_prefix = <<<<"/", "docs">>>>
    /\ probe[3].path = <<"/", "docs", "ify">>
    /\ probe[2].include_regexes = {IfyPattern}
    /\ probe[2].exclude_regexes = {SubPattern}
    /\ verdict[2]

\* C28: with preserve_paragraphs the output has one empty line for each run
\* of blank or whitespace-only lines that lies between two non-blank lines of
\* the input, never three consecutive newlines, no blank line other than an
\* empty one, and neither a leading nor a trailing blank line.
NonBlank(l) == \E i \in 1..Len(l) : ~is_whitespace(l[i])
C28_ParagraphPreservation ==
    (content # NoText /\ probe[2].preserve_paragraphs) =>
        LET input == lines(text)
            out == IF content = <<>> THEN <<>> ELSE split_char(content, LF)
            Gaps == {i \in 1..(Len(input) - 1) :
                        /\ NonBlank(input[i])
                        /\ ~NonBlank(input[i + 1])
                        /\ \E j \in (i + 2)..Len(input) : NonBlank(input[j])}
            EmptyOut == {i \in 1..Len(out) : out[i] = <<>>}
        IN  /\ \A i \in 1..(Len(content) - 2) :
                  ~(content[i] = LF /\ content[i + 1] = LF /\ content[i + 2] = LF)
            /\ content # <<>> => NonBlank(out[1]) /\ NonBlank(out[Len(out)])
            /\ \A i \in 1..Len(out) : ~NonBlank(out[i]) => out[i] = <<>>
            /\ Cardinality(EmptyOut) = Cardinality(Gaps)

C28_Witness ==
    /\ probe[1] = "text"
    /\ probe[2].preserve_paragraphs
    /\ text = <<"a", LF, " ", LF, "a">>
    /\ content = <<"a", LF, LF, "a">>

\* C29: a link is enqueued only by a worker whose own page's record is
\* already on the output stream, records are only ever appended, and the
\* first record on the stream is the seed's.
C29_EmitBeforeEnqueue ==
    [][/\ Len(frontier') > Len(frontier) =>
             \E w \in Workers :
                 /\ pc[w] = "send"
                 /\ frontier' = Append(frontier, normalized[w])
                 /\ \E i \in 1..Len(emitted) : emitted[i] = url[w]
       /\ emitted' # emitted =>
             \E w \in Workers : emitted' = Append(emitted, url[w])
       /\ emitted' # <<>> => emitted'[1] = start_url]_vars

C29_Witness ==
    /\ Len(emitted) = 2
    /\ emitted[1] = start_url
    /\ emitted[2] # start_url
    /\ \E w \in Workers : pc[w] = "links" /\ url[w] = emitted[2]

\* C30: a worker that has entered the pipeline of a URL (permit, connect,
\* navigation, source read) always leaves it again.
InPipeline(w) ==
    /\ w \in Workers
    /\ pc[w] \in {"acquire", "connect", "connect_hung", "connected",
                  "connect_failed", "scrape", "result"}
C30_PipelineDeadline ==
    \A w \in 1..MaxConcurrency : InPipeline(w) ~> ~InPipeline(w)

\* C31: one process_url call makes at most two navigation attempts and at
\* most one reconnect, a second navigation only after a reconnect that opened
\* a session, and the worker then emits the record or abandons the URL.
C31_BoundedRetries ==
    [][\A w \in Workers :
         (pc[w] = "scrape" /\ pc'[w] # "scrape") =>
             /\ pc'[w] = "result"
             /\ nav_attempts'[w] \in 1..2
             /\ reconnect_attempts'[w] \in 0..1
             /\ nav_attempts'[w] = 2 =>
                   /\ reconnect_attempts'[w] = 1
                   /\ sessions_opened'[w] = sessions_opened[w] + 1
             /\ sessions_opened'[w] = sessions_opened[w] =>
                   nav_attempts'[w] = 1]_vars

C31_Witness ==
    \E w \in Workers :
        /\ pc[w] = "result"
        /\ first_error[w] = "session_lost"
        /\ nav_attempts[w] = 1
        /\ ~scrape_result[w]

\* C32: VisitedSet never loses a URL; it gains one only by the check-and-
\* insert of a worker whose URL was absent; no two workers are past their
\* claim with the same URL string; and the URL of every worker past its claim
\* is in VisitedSet.
PastClaim(w) ==
    pc[w] \in {"acquire", "connect", "connected", "connect_failed", "scrape",
              "result", "emit", "flag", "links", "send", "abort"}
C32_VisitedGrows ==
    /\ [][/\ visited \subseteq visited'
          /\ visited' # visited =>
                \E w \in Workers :
                    /\ pc[w] = "mark" /\ pc'[w] = "acquire"
                    /\ url[w] \notin visited
                    /\ visited' = visited \cup {url[w]}
          /\ \A w \in Workers :
                (pc[w] = "mark" /\ pc'[w] = "acquire") =>
                    url[w] \notin visited /\ url[w] \in visited']_vars
    /\ [](\A w \in Workers : PastClaim(w) => url[w] \in visited)
    /\ [](\A w1, w2 \in Workers :
             (w1 # w2 /\ PastClaim(w1) /\ PastClaim(w2)) => url[w1] # url[w2])

C32_Witness ==
    \E w1, w2 \in Workers :
        /\ w1 # w2
        /\ pc[w1] = "mark"
        /\ PastClaim(w2)
        /\ url[w1] = url[w2]

\* C33: a worker that has left its loop, by a dequeue timeout or a failed
\* emission, closes its session and then sends its one completion signal; the
\* send always finds room; the signals sent are the ones queued plus the ones
\* counted, the count never exceeds the worker count and reaches it once all
\* workers have signalled.
LeftLoop(w) == w \in Workers /\ pc[w] \in {"close", "abort", "signal"}
C33_CompletionSignalling ==
    /\ [](\A w \in Workers :
            /\ pc[w] \in {"close", "abort", "signal", "exit", "done"} <=>
                  exit_cause[w] \in {"timeout", "emit_failed"}
            /\ pc[w] = "signal" =>
                  completion_chan < CompletionCap(max_concurrency)
            /\ pc[w] \in {"signal", "exit", "done"} =>
                  ~client_opt[w] /\ sessions_closed[w] = sessions_opened[w])
    /\ [](/\ completion_chan + completed_workers
               = Cardinality({w \in Workers : Signalled(w)})
          /\ completed_workers <= max_concurrency)
    /\ [][\A w \in Workers :
            /\ Signalled(w) => Signalled(w)'
            /\ (~Signalled(w) /\ Signalled(w)') =>
                  pc[w] = "signal" /\ completion_chan' = completion_chan + 1
            /\ completion_chan' > completion_chan =>
                  \E v \in Workers : pc[v] = "signal" /\ pc'[v] = "exit"]_vars
    /\ \A w \in 1..MaxConcurrency : LeftLoop(w) ~> (w \in Workers /\ Signalled(w))
    /\ (\A w \in Workers : Signalled(w)) ~> (completed_workers = max_concurrency)

C33_Witness ==
    /\ max_concurrency = 2
    /\ completed_workers = 2
    /\ \E w, v \in Workers :
          exit_cause[w] = "timeout" /\ exit_cause[v] = "emit_failed"

\* C34: at most one worker is inside the receive on the Frontier and it is
\* the holder of the receiver's mutex; an item leaves the Frontier only by
\* being handed to that one worker; the holder frees the mutex when it
\* returns, and a worker waiting for the mutex eventually gets it.
C34_ExclusiveReceive ==
    /\ [](/\ Cardinality({w \in Workers : pc[w] = "recv"}) <= 1
          /\ \A w \in Workers : pc[w] = "recv" <=> rx_lock = w)
    /\ [][/\ Len(frontier') < Len(frontier) =>
                \E w \in Workers :
                    /\ pc[w] = "recv" /\ pc'[w] = "mark"
                    /\ frontier' = Tail(frontier)
                    /\ url'[w] = Head(frontier)
                    /\ \A v \in Workers \ {w} : url'[v] = url[v]
          /\ \A w \in Workers :
                (pc[w] = "recv" /\ pc'[w] # "recv") => rx_lock' = 0]_vars
    /\ \A w \in 1..MaxConcurrency :
          (w \in Workers /\ pc[w] = "lock") ~> (pc[w] = "recv")

C34_Witness ==
    \E w, v \in Workers :
        /\ pc[w] = "recv" /\ rx_lock = w
        /\ pc[v] = "lock"
        /\ Len(frontier) = 2

\* C35: when every worker has left its loop through a dequeue timeout, the
\* Frontier is empty, no worker holds a URL or a permit, and every permit is
\* back in the semaphore.
AllTimedOut ==
    \A w \in Workers :
        pc[w] \in {"close", "signal", "exit", "done"} /\ exit_cause[w] = "timeout"
C35_NoStrandedWork ==
    AllTimedOut =>
        /\ frontier = <<>>
        /\ Held = 0
        /\ permits = max_concurrency
        /\ \A w \in Workers : normalized[w] = NoUrl

C35_Witness ==
    /\ AllTimedOut
    /\ max_concurrency = 2
    /\ Len(emitted) >= 2
    /\ failed # {}

\* C36: a worker that asks for a permit finds one available; a worker holds
\* a permit only between its acquire and the end of that iteration, so
\* available and held permits add up to max_concurrency, and all permits are
\* available once every worker has left its loop.
C36_AcquireNeverWaits ==
    /\ \A w \in Workers : pc[w] = "acquire" => permits > 0
    /\ permits = max_concurrency - Cardinality({w \in Workers : HoldsPermit(w)})
    /\ (\A w \in Workers : pc[w] \in {"close", "signal", "exit", "done"}) =>
          permits = max_concurrency

C36_Witness ==
    /\ max_concurrency = 2
    /\ permits = 1
    /\ \E w, v \in Workers : pc[w] = "acquire" /\ pc[v] = "abort"

\* C37: once the fetch of the seed has failed the Frontier stays empty, no
\* record is emitted and the first-page flag stays false; every worker then
\* signals completion, every worker task ends and the output stream is closed.
SeedFailed == start_url \in failed
C37_FailedSeed ==
    /\ [](SeedFailed =>
            /\ frontier = <<>>
            /\ emitted = <<>>
            /\ ~initial_page_processed
            /\ visited = {start_url}
            /\ \A w \in Workers : pc[w] \notin {"emit", "flag", "links", "send"})
    /\ SeedFailed ~>
          /\ StreamClosed
          /\ completed_workers = max_concurrency
          /\ \A w \in Workers : pc[w] = "done" /\ exit_cause[w] = "timeout"

C37_Witness ==
    /\ SeedFailed
    /\ StreamClosed
    /\ emitted = <<>>
    /\ \E w \in Workers : sessions_opened[w] = 1 /\ sessions_closed[w] = 1

\* C38: after the consumer has dropped the stream a worker with a scraped
\* page fails its emission and leaves its loop for good, the other workers
\* end by dequeue timeout, and the crawl terminates: every worker task ends
\* and the stream is closed.
C38_TerminatesAfterDrop ==
    (result_rx = "dropped") ~>
        (StreamClosed /\ \A w \in Workers : pc[w] = "done")

\* C39: in the legacy engine, once the Frontier is empty and every worker is
\* waiting for a URL, all workers end, the shared client is closed and the
\* output stream is closed.
LegacyQuiescent ==
    /\ legacy.frontier = <<>>
    /\ \A w \in 1..legacy.n : legacy.pc[w] \in {"lock", "recv"}
LegacyTerminated ==
    /\ \A w \in 1..legacy.n : legacy.pc[w] = "done"
    /\ legacy.client_closed
    /\ legacy.result_senders = 0
C39_LegacyTermination == LegacyQuiescent ~> LegacyTerminated

====
